---- MODULE Spec2Model ----
(***************************************************************************)
(* Model of sec-lab-bot.py: the authenticated request client.  One process *)
(* loads the pre-shared key, optionally performs a key-rotation exchange   *)
(* (--keygen), then issues open/close requests from the toggle loop.       *)
(* Bytes are integers 0..255, byte strings are sequences of bytes.         *)
(***************************************************************************)
EXTENDS Integers, Sequences, FiniteSets, TLC

\* ------------------------------------------------------------ constants
MAX_AGE == 10
FLAG_OPEN_REQ == 255
FLAG_CLOSE_REQ == 0
FLAG_KEYGEN_REQ == 170
FLAG_ALL_GOOD == 255
FLAG_KEYGEN_ACK == 85
STATE_CLOSED == 0
STATE_OPEN == 1
\* the two return values of ssl_request (True and False in the source)
EXIT_SUCCESS == "EXIT_SUCCESS"
EXIT_FAILURE == "EXIT_FAILURE"
\* sizes passed to recv / to_bytes, and the SHA-256 digest size
ACK_LEN == 1
TS_LEN == 8
KEY_LEN == 32
DIGEST_LEN == 32
\* the '=' padding character of base64, after the 64 alphabet positions
B64_PAD == 64

\* ------------------------------------------------------------ bounds
\* the clock advances at most MaxTick seconds during a run
MaxTick == 2
\* key presses handled by the toggle loop in a run
MaxPresses == 3

\* ------------------------------------------------------------ wire codec
RECURSIVE DecodeUnsigned(_)
\* little-endian magnitude of a byte string (Horner form)
DecodeUnsigned(data) ==
    IF data = <<>> THEN 0 ELSE Head(data) + 256 * DecodeUnsigned(Tail(data))

\* int.from_bytes(data, byteorder='little', signed=sgn); two's complement:
\* with the top bit set the value is unsigned - 256^len = -(1 + complement)
wire_decode_int(data, sgn) ==
    IF sgn /\ data # <<>> /\ data[Len(data)] >= 128
    THEN -(1 + DecodeUnsigned([i \in 1..Len(data) |-> 255 - data[i]]))
    ELSE DecodeUnsigned(data)

RECURSIVE Pow256(_)
Pow256(n) == IF n = 0 THEN 1 ELSE 256 * Pow256(n - 1)

\* whether i.to_bytes(size, signed=sgn) succeeds (OverflowError otherwise);
\* every integer TLC can represent fits 4 or more signed bytes
\* variant: the unsigned range whatever the signedness
encode_fits_nosign(i, size, sgn) ==
    IF size >= 4 THEN i >= 0 ELSE 0 <= i /\ i < Pow256(size)

encode_fits(i, size, sgn) ==
    IF size >= 4
    THEN sgn \/ i >= 0
    ELSE IF size = 0
    THEN i = 0
    ELSE IF sgn
         THEN -(Pow256(size) \div 2) <= i /\ i < Pow256(size) \div 2
         ELSE 0 <= i /\ i < Pow256(size)

RECURSIVE EncodeLittle(_, _)
EncodeLittle(i, size) ==
    IF size = 0 THEN <<>> ELSE <<i % 256>> \o EncodeLittle(i \div 256, size - 1)

RECURSIVE EncodeBig(_, _)
EncodeBig(i, size) ==
    IF size = 0 THEN <<>> ELSE EncodeBig(i \div 256, size - 1) \o <<i % 256>>

\* i.to_bytes(size, byteorder='little', signed=sgn), defined when encode_fits
wire_encode_int(i, size, sgn) == EncodeLittle(i, size)

\* ------------------------------------------------------------ base64
RECURSIVE b64e(_)
\* base64.b64encode: positions in the base64 alphabet, B64_PAD for '='
b64e(s) ==
    IF Len(s) = 0 THEN <<>>
    ELSE IF Len(s) = 1
    THEN << s[1] \div 4, (s[1] % 4) * 16, B64_PAD, B64_PAD >>
    ELSE IF Len(s) = 2
    THEN << s[1] \div 4, (s[1] % 4) * 16 + s[2] \div 16, (s[2] % 16) * 4, B64_PAD >>
    ELSE << s[1] \div 4, (s[1] % 4) * 16 + s[2] \div 16,
            (s[2] % 16) * 4 + s[3] \div 64, s[3] % 64 >>
         \o b64e(SubSeq(s, 4, Len(s)))

RECURSIVE b64d(_)
\* base64.b64decode of a padded base64 text
b64d(c) ==
    IF Len(c) < 4 THEN <<>>
    ELSE LET b1 == c[1] * 4 + c[2] \div 16
             b2 == (c[2] % 16) * 16 + c[3] \div 4
             b3 == (c[3] % 4) * 64 + c[4]
         IN  IF c[3] = B64_PAD THEN <<b1>>
             ELSE IF c[4] = B64_PAD THEN <<b1, b2>>
             ELSE <<b1, b2, b3>> \o b64d(SubSeq(c, 5, Len(c)))

\* ------------------------------------------------------------ MAC
RECURSIVE WeightedSum(_, _)
WeightedSum(s, w) ==
    IF s = <<>> THEN 0 ELSE w * Head(s) + WeightedSum(Tail(s), w + 1)

\* hmac.new(key, msg, sha256).digest(): a keyed function of key and message
\* with a DIGEST_LEN-byte output (SHA-256 itself is abstracted by a keyed
\* checksum; only "same key and message <=> same digest" is relied on)
hmac_digest(key, msg) ==
    LET k == WeightedSum(key, 1)
        m == WeightedSum(msg, 1)
        n == Len(key)
    IN  [i \in 1..DIGEST_LEN |-> (k + 3 * m + i * (1 + n)) % 256]

\* ------------------------------------------------------------ inputs
\* the key in KEY_FILE when the process starts
K0 == [i \in 1..KEY_LEN |-> (7 * i) % 256]
\* keys the controller may hand out in a key-rotation response
NewKeys == { [i \in 1..KEY_LEN |-> (11 * i + 3) % 256],
             [i \in 1..KEY_LEN |-> 255 - i] }
\* time.time() when the process starts
ClockStarts == { 1700000000, -5 }
\* controller clock relative to the client clock when it answers
PeerSkews == { -12, -11, -10, -9, -3, 4, 86400 }
\* first byte of a response
PeerAcks == { FLAG_KEYGEN_ACK, FLAG_ALL_GOOD, 0 }
\* how many bytes of its answer the controller delivers before closing
TruncLens == { 0, 1, 5, 9, 20, 40, 41 }

\* sizes of the chunks in which the transport delivers the answer
ChunkLens == { 1, 7, 32 }

Min(a, b) == IF a <= b THEN a ELSE b

Prefix(s, n) == SubSeq(s, 1, Min(n, Len(s)))

\* answers to an open/close request: a status byte, or nothing
StatusResponses == { <<b>> : b \in PeerAcks } \cup { <<>> }

\* answers to a keygen request sent at client time t:
\* ack || timestamp || new_key, possibly cut short
KeygenResponses(t) ==
    { Prefix(<<a>> \o wire_encode_int(t + d, TS_LEN, TRUE) \o k, n) :
        a \in PeerAcks, d \in PeerSkews, k \in NewKeys, n \in TruncLens }

\* ------------------------------------------------------------ state
VARIABLES
    keyFile,     \* content of KEY_FILE (base64 text)
    KEY,         \* module-level KEY, read from KEY_FILE at import
    now,         \* the client clock, whole seconds
    start,       \* the clock at process start
    argvKeygen,  \* "--keygen" in sys.argv
    pc,          \* position of the process
    caller,      \* who called ssl_request: "startup" or "main"
    reqtype,     \* argument of the running ssl_request
    wire,        \* messages written to conn by the running ssl_request
    resp,        \* bytes of the controller's answer not yet received
    reads,       \* what each conn.recv of the running ssl_request returned
    tsNow,       \* the clock when timestamp_verify ran
    result,      \* return value of the last ssl_request ("none" while running)
    excmsg,      \* message of the exception caught by ssl_request
    state,       \* toggle state of main
    success,     \* main's success variable
    presses,     \* key presses (calls of ssl_request by the caller) so far
    oklog,       \* request kinds of the "request success" lines main logged
    codec,       \* an integer handed to the wire codec, and what came back
    logFile      \* LOG_FILE, as the number of lines it holds

vars == << keyFile, KEY, now, start, argvKeygen, pc, caller, reqtype, wire,
           resp, reads, tsNow, result, excmsg, state, success, presses,
           oklog, codec, logFile >>

\* state that ssl_request and its callers' control flow leave alone
aux == << oklog, codec, logFile >>

\* the codec has not been applied
CodecIdle == [v |-> 0, w |-> 0, sgn |-> FALSE, applied |-> FALSE,
              raised |-> FALSE, bytes |-> <<>>, back |-> 0]

read_key_from_file == b64d(keyFile)

timestamp == now

timestamp_bytes == wire_encode_int(timestamp, TS_LEN, TRUE)

\* variant: strict comparison
timestamp_verify_strict(tdata) ==
    (timestamp - wire_decode_int(tdata, TRUE)) < MAX_AGE

\* variant: operands of the subtraction swapped
timestamp_verify_reversed(tdata) ==
    (wire_decode_int(tdata, TRUE) - timestamp) <= MAX_AGE

\* variant: the age is bounded on both sides
timestamp_verify_twosided(tdata) ==
    /\ (timestamp - wire_decode_int(tdata, TRUE)) <= MAX_AGE
    /\ (wire_decode_int(tdata, TRUE) - timestamp) <= MAX_AGE

timestamp_verify(tdata) ==
    (timestamp - wire_decode_int(tdata, TRUE)) <= MAX_AGE

\* variant: every kind gets a flag (the last branch is an else)
HasFlag_default(rt) == TRUE

\* make_request finds a flag for rt; otherwise val stays None and
\* wire_encode_int(None, ...) raises AttributeError
HasFlag(rt) == rt \in {"open", "close", "keygen"}

\* the flag of a kind that has one
FlagOf(rt) ==
    IF rt = "open" THEN FLAG_OPEN_REQ
    ELSE IF rt = "close" THEN FLAG_CLOSE_REQ
    ELSE FLAG_KEYGEN_REQ

\* variant: the digest is not appended
make_request_nomac(rt) ==
    wire_encode_int(FlagOf(rt), 1, FALSE) \o timestamp_bytes

\* variant: timestamp in big-endian order
make_request_bigendian(rt) ==
    LET data == wire_encode_int(FlagOf(rt), 1, FALSE)
                \o EncodeBig(timestamp, TS_LEN)
    IN  data \o hmac_digest(KEY, data)

make_request(rt) ==
    LET data == wire_encode_int(FlagOf(rt), 1, FALSE) \o timestamp_bytes
    IN  data \o hmac_digest(KEY, data)

\* variant: compares with the close flag instead of the all-good sentinel
status_ok_zero(data) == wire_decode_int(data, FALSE) = FLAG_CLOSE_REQ

\* open/close: the status read is good when it decodes to FLAG_ALL_GOOD
status_ok(data) == wire_decode_int(data, FALSE) = FLAG_ALL_GOOD

\* variant: compares with the all-good sentinel instead of the keygen ack
ack_ok_allgood(data) == wire_decode_int(data, FALSE) = FLAG_ALL_GOOD

\* keygen: the ack read is good when it decodes to FLAG_KEYGEN_ACK
ack_ok(data) == wire_decode_int(data, FALSE) = FLAG_KEYGEN_ACK

\* variant: the key is written without base64 encoding
write_key_to_file_raw(key) == key

\* what write_key_to_file(key) leaves in KEY_FILE once written
write_key_to_file(key) == b64e(key)

InitBase ==
    /\ keyFile = b64e(K0)
    /\ KEY = b64d(keyFile)
    /\ now \in ClockStarts
    /\ start = now
    /\ argvKeygen \in BOOLEAN
    /\ pc = "boot"
    /\ caller = "startup"
    /\ reqtype = "none"
    /\ wire = <<>>
    /\ resp = <<>>
    /\ reads = <<>>
    /\ tsNow = 0
    /\ result = "none"
    /\ excmsg = ""
    /\ state = STATE_CLOSED
    /\ success = TRUE
    /\ presses = 0
    /\ oklog = <<>>

Init ==
    /\ InitBase
    /\ codec = CodecIdle
    /\ logFile = 0

\* ------------------------------------------------------------ ssl_request
\* entry of ssl_request(rt): nothing written or read yet
Call(rt, from) ==
    /\ pc' = "connect"
    /\ caller' = from
    /\ reqtype' = rt
    /\ wire' = <<>>
    /\ resp' = <<>>
    /\ reads' = <<>>
    /\ tsNow' = 0
    /\ result' = "none"
    /\ excmsg' = ""

\* variant: the exception is logged and the call still returns success
Raise_swallowed(msg) ==
    /\ pc' = "done"
    /\ result' = EXIT_SUCCESS
    /\ excmsg' = msg

\* an Exception raised inside the try block: logged, EXIT_FAILURE returned
Raise(msg) ==
    /\ pc' = "done"
    /\ result' = EXIT_FAILURE
    /\ excmsg' = msg

\* lengths conn.recv(n) can return: nothing at end of stream, otherwise
\* at least one byte and at most what is both asked for and available
\* (the chunk the transport hands over is drawn from ChunkLens)
RecvLens(n) ==
    IF resp = <<>> THEN {0}
    ELSE { Min(c, Min(n, Len(resp))) : c \in ChunkLens }

Connect ==
    /\ pc = "connect"
    /\ pc' = "send"
    /\ UNCHANGED << keyFile, KEY, now, start, argvKeygen, caller, reqtype, wire,
                    resp, reads, tsNow, result, excmsg, state, success, presses >>
    /\ UNCHANGED aux

ConnectError ==
    /\ pc = "connect"
    /\ Raise("channel error")
    /\ UNCHANGED << keyFile, KEY, now, start, argvKeygen, caller, reqtype, wire,
                    resp, reads, tsNow, state, success, presses >>
    /\ UNCHANGED aux

\* conn.sendall(make_request(reqtype)); the controller's answer is fixed here
\* (a kind that is neither open/close nor keygen reads nothing and returns)
Send ==
    /\ pc = "send"
    /\ HasFlag(reqtype)
    /\ wire' = Append(wire, make_request(reqtype))
    /\ IF reqtype \in {"open", "close"}
       THEN /\ resp' \in StatusResponses
            /\ pc' = "recv_status"
            /\ UNCHANGED result
       ELSE IF reqtype \in {"keygen"}
       THEN /\ resp' \in KeygenResponses(now)
            /\ pc' = "recv_ack"
            /\ UNCHANGED result
       ELSE /\ resp' = resp
            /\ pc' = "done"
            /\ result' = EXIT_SUCCESS
    /\ UNCHANGED << keyFile, KEY, now, start, argvKeygen, caller, reqtype,
                    reads, tsNow, excmsg, state, success, presses >>
    /\ UNCHANGED aux

\* make_request(reqtype) raises for a kind without a flag: nothing is sent
SendUnknownKind ==
    /\ pc = "send"
    /\ ~ HasFlag(reqtype)
    /\ Raise("'NoneType' object has no attribute 'to_bytes'")
    /\ UNCHANGED << keyFile, KEY, now, start, argvKeygen, caller, reqtype, wire,
                    resp, reads, tsNow, state, success, presses >>
    /\ UNCHANGED aux

SendError ==
    /\ pc = "send"
    /\ Raise("channel error")
    /\ UNCHANGED << keyFile, KEY, now, start, argvKeygen, caller, reqtype, wire,
                    resp, reads, tsNow, state, success, presses >>
    /\ UNCHANGED aux

\* open/close: wire_decode_int(conn.recv(1)) != FLAG_ALL_GOOD raises
RecvStatus ==
    /\ pc = "recv_status"
    /\ \E k \in RecvLens(ACK_LEN) :
         LET data == SubSeq(resp, 1, k) IN
         /\ resp' = SubSeq(resp, k + 1, Len(resp))
         /\ reads' = Append(reads, data)
         /\ IF ~ status_ok(data)
            THEN Raise("client received bad response")
            ELSE /\ pc' = "done"
                 /\ result' = EXIT_SUCCESS
                 /\ excmsg' = excmsg
    /\ UNCHANGED << keyFile, KEY, now, start, argvKeygen, caller, reqtype, wire,
                    tsNow, state, success, presses >>
    /\ UNCHANGED aux

\* keygen: wire_decode_int(conn.recv(1)) != FLAG_KEYGEN_ACK raises
RecvAck ==
    /\ pc = "recv_ack"
    /\ \E k \in RecvLens(ACK_LEN) :
         LET data == SubSeq(resp, 1, k) IN
         /\ resp' = SubSeq(resp, k + 1, Len(resp))
         /\ reads' = Append(reads, data)
         /\ IF ~ ack_ok(data)
            THEN Raise("client received bad response")
            ELSE /\ pc' = "recv_ts"
                 /\ UNCHANGED << result, excmsg >>
    /\ UNCHANGED << keyFile, KEY, now, start, argvKeygen, caller, reqtype, wire,
                    tsNow, state, success, presses >>
    /\ UNCHANGED aux

\* keygen: not timestamp_verify(conn.recv(8)) raises
RecvTimestamp ==
    /\ pc = "recv_ts"
    /\ \E k \in RecvLens(TS_LEN) :
         LET data == SubSeq(resp, 1, k) IN
         /\ resp' = SubSeq(resp, k + 1, Len(resp))
         /\ reads' = Append(reads, data)
         /\ tsNow' = now
         /\ IF ~ timestamp_verify(data)
            THEN Raise("client received stale response")
            ELSE /\ pc' = "recv_key"
                 /\ UNCHANGED << result, excmsg >>
    /\ UNCHANGED << keyFile, KEY, now, start, argvKeygen, caller, reqtype, wire,
                    state, success, presses >>
    /\ UNCHANGED aux

\* keygen: the argument of write_key_to_file is conn.recv(32)
RecvKey ==
    /\ pc = "recv_key"
    /\ \E k \in RecvLens(KEY_LEN) :
         /\ resp' = SubSeq(resp, k + 1, Len(resp))
         /\ reads' = Append(reads, SubSeq(resp, 1, k))
    /\ pc' = "open_keyfile"
    /\ UNCHANGED << keyFile, KEY, now, start, argvKeygen, caller, reqtype, wire,
                    tsNow, result, excmsg, state, success, presses >>
    /\ UNCHANGED aux

\* any conn.recv may raise instead of returning
RecvError ==
    /\ pc \in {"recv_status", "recv_ack", "recv_ts", "recv_key"}
    /\ Raise("channel error")
    /\ UNCHANGED << keyFile, KEY, now, start, argvKeygen, caller, reqtype, wire,
                    resp, reads, tsNow, state, success, presses >>
    /\ UNCHANGED aux

\* write_key_to_file: open(KEY_FILE, 'wb') truncates the file
OpenKeyFile ==
    /\ pc = "open_keyfile"
    /\ keyFile' = <<>>
    /\ pc' = "write_keyfile"
    /\ UNCHANGED << KEY, now, start, argvKeygen, caller, reqtype, wire, resp,
                    reads, tsNow, result, excmsg, state, success, presses >>
    /\ UNCHANGED aux

\* write_key_to_file: f.write(b64e(key)) and close; ssl_request returns
WriteKeyFile ==
    /\ pc = "write_keyfile"
    /\ keyFile' = write_key_to_file(reads[3])
    /\ pc' = "done"
    /\ result' = EXIT_SUCCESS
    /\ UNCHANGED << KEY, now, start, argvKeygen, caller, reqtype, wire, resp,
                    reads, tsNow, excmsg, state, success, presses >>
    /\ UNCHANGED aux

\* ------------------------------------------------------------ program
\* __main__: ssl_request("keygen") when asked for, then main
Startup ==
    /\ pc = "boot"
    /\ IF argvKeygen
       THEN Call("keygen", "startup")
       ELSE /\ pc' = "getch"
            /\ UNCHANGED << caller, reqtype, wire, resp, reads, tsNow, result,
                            excmsg >>
    /\ UNCHANGED << keyFile, KEY, now, start, argvKeygen, state, success, presses >>
    /\ UNCHANGED aux

\* variant: after a failed request the next key press asks for a new key
KeyPress_rekey ==
    /\ pc = "getch"
    /\ presses < MaxPresses
    /\ presses' = presses + 1
    /\ Call(IF ~ success THEN "keygen"
            ELSE IF state = STATE_CLOSED THEN "open" ELSE "close", "main")
    /\ UNCHANGED << keyFile, KEY, now, start, argvKeygen, state, success >>
    /\ UNCHANGED aux

\* main: a key press issues the request for the other toggle state
KeyPress ==
    /\ pc = "getch"
    /\ presses < MaxPresses
    /\ presses' = presses + 1
    /\ Call(IF state = STATE_CLOSED THEN "open" ELSE "close", "main")
    /\ UNCHANGED << keyFile, KEY, now, start, argvKeygen, state, success >>
    /\ UNCHANGED aux

\* variant: the state flips whatever the result
Return_always_flip ==
    /\ pc = "done"
    /\ pc' = "getch"
    /\ IF caller = "main"
       THEN /\ success' = (result = EXIT_SUCCESS)
            /\ state' = 1 - state
            /\ oklog' = IF result = EXIT_SUCCESS
                        THEN Append(oklog, reqtype) ELSE oklog
       ELSE UNCHANGED << state, success, oklog >>
    /\ UNCHANGED << keyFile, KEY, now, start, argvKeygen, caller, reqtype, wire,
                    resp, reads, tsNow, result, excmsg, presses, codec, logFile >>

\* variant: the state is not flipped
Return_never_flip ==
    /\ pc = "done"
    /\ pc' = "getch"
    /\ IF caller = "main"
       THEN /\ success' = (result = EXIT_SUCCESS)
            /\ state' = state
            /\ oklog' = IF result = EXIT_SUCCESS
                        THEN Append(oklog, reqtype) ELSE oklog
       ELSE UNCHANGED << state, success, oklog >>
    /\ UNCHANGED << keyFile, KEY, now, start, argvKeygen, caller, reqtype, wire,
                    resp, reads, tsNow, result, excmsg, presses, codec, logFile >>

\* ssl_request returns to its caller; main flips the state on success
Return ==
    /\ pc = "done"
    /\ pc' = "getch"
    /\ IF caller = "main"
       THEN /\ success' = (result = EXIT_SUCCESS)
            /\ state' = IF result = EXIT_SUCCESS THEN 1 - state ELSE state
            /\ oklog' = IF result = EXIT_SUCCESS
                        THEN Append(oklog, reqtype) ELSE oklog
       ELSE UNCHANGED << state, success, oklog >>
    /\ UNCHANGED << keyFile, KEY, now, start, argvKeygen, caller, reqtype, wire,
                    resp, reads, tsNow, result, excmsg, presses, codec, logFile >>

\* KeyboardInterrupt is no Exception: it ends the process wherever it is
Interrupt ==
    /\ pc # "exit"
    /\ pc' = "exit"
    /\ UNCHANGED << keyFile, KEY, now, start, argvKeygen, caller, reqtype, wire,
                    resp, reads, tsNow, result, excmsg, state, success, presses >>
    /\ UNCHANGED aux

\* a second passes
Tick ==
    /\ pc # "exit"
    /\ now < start + MaxTick
    /\ now' = now + 1
    /\ UNCHANGED << keyFile, KEY, start, argvKeygen, pc, caller, reqtype, wire,
                    resp, reads, tsNow, result, excmsg, state, success, presses >>
    /\ UNCHANGED aux

Next ==
    \/ Startup
    \/ KeyPress
    \/ Connect
    \/ ConnectError
    \/ Send
    \/ SendError
    \/ RecvStatus
    \/ RecvAck
    \/ RecvTimestamp
    \/ RecvKey
    \/ RecvError
    \/ OpenKeyFile
    \/ WriteKeyFile
    \/ Return
    \/ Interrupt
    \/ Tick

Spec == Init /\ [][Next]_vars

\* ------------------------------------------------------------ direct calls
\* ssl_request called directly, with any request kind
MaxCalls == 1

\* request kinds a caller may pass
RequestKinds == { "open", "close", "keygen", "toggle", "" }

DirectCall ==
    /\ pc = "boot"
    /\ presses < MaxCalls
    /\ presses' = presses + 1
    /\ \E rt \in RequestKinds : Call(rt, "direct")
    /\ UNCHANGED << keyFile, KEY, now, start, argvKeygen, state, success >>
    /\ UNCHANGED aux

\* the call has returned: its connection and locals are gone
DirectReturn ==
    /\ pc = "done"
    /\ pc' = "boot"
    /\ wire' = <<>>
    /\ resp' = <<>>
    /\ reads' = <<>>
    /\ tsNow' = 0
    /\ excmsg' = ""
    /\ UNCHANGED << keyFile, KEY, now, start, argvKeygen, caller, reqtype,
                    result, state, success, presses >>
    /\ UNCHANGED aux

NextKinds ==
    \/ DirectCall
    \/ Connect
    \/ ConnectError
    \/ Send
    \/ SendUnknownKind
    \/ SendError
    \/ RecvStatus
    \/ RecvAck
    \/ RecvTimestamp
    \/ RecvKey
    \/ RecvError
    \/ OpenKeyFile
    \/ WriteKeyFile
    \/ DirectReturn
    \/ Tick

SpecKinds == Init /\ [][NextKinds]_vars

\* ------------------------------------------------------------ wire codec alone
\* integers and widths handed to the codec
CodecValues == { -32769, -32768, -129, -128, -1, 0, 1, 127, 128, 255, 256,
                 32767, 32768, 65535, 65536, 1700000000, -1700000000 }
CodecWidths == { 0, 1, 2, 3, 8 }

InitCodec ==
    /\ InitBase
    /\ logFile = 0
    /\ \E v \in CodecValues, w \in CodecWidths, sgn \in BOOLEAN :
         codec = [CodecIdle EXCEPT !.v = v, !.w = w, !.sgn = sgn]

\* wire_decode_int(wire_encode_int(v, w, sgn), sgn), or the OverflowError
CodecApply ==
    /\ ~ codec.applied
    /\ codec' =
         IF encode_fits(codec.v, codec.w, codec.sgn)
         THEN LET bytes == wire_encode_int(codec.v, codec.w, codec.sgn)
              IN  [codec EXCEPT !.applied = TRUE, !.raised = FALSE,
                                !.bytes = bytes,
                                !.back = wire_decode_int(bytes, codec.sgn)]
         ELSE [codec EXCEPT !.applied = TRUE, !.raised = TRUE]
    /\ UNCHANGED << keyFile, KEY, now, start, argvKeygen, pc, caller, reqtype,
                    wire, resp, reads, tsNow, result, excmsg, state, success,
                    presses, oklog, logFile >>

NextCodec == CodecApply

SpecCodec == InitCodec /\ [][NextCodec]_vars

\* ------------------------------------------------------------ truncate_log
MAX_LOG_ENTRIES == 1024
\* lines the log may grow beyond MAX_LOG_ENTRIES
MaxOver == 3

\* sizes of LOG_FILE when the first run starts
StartSizes == { 0, MAX_LOG_ENTRIES - 1, MAX_LOG_ENTRIES + 1 }

InitLog ==
    /\ InitBase
    /\ codec = CodecIdle
    /\ logFile \in StartSizes

\* len(f.readlines())
line_count(file) == file

\* f.write(text) with the position at the end of the file: the lines of
\* text (n of them) are added after those of the file
write_at_end(file, n) == file + n

\* truncate_log: f.readlines() leaves the position at the end of the file;
\* f.write("") then writes no line
TruncateLog ==
    /\ pc = "boot"
    /\ pc' = "logging"
    /\ logFile' = IF line_count(logFile) > MAX_LOG_ENTRIES
                  THEN write_at_end(logFile, 0)
                  ELSE logFile
    /\ UNCHANGED << keyFile, KEY, now, start, argvKeygen, caller, reqtype,
                    wire, resp, reads, tsNow, result, excmsg, state, success,
                    presses, oklog, codec >>

\* the run logs a line (logging.basicConfig(filename=LOG_FILE) appends)
LogLine ==
    /\ pc = "logging"
    /\ logFile < MAX_LOG_ENTRIES + MaxOver
    /\ logFile' = logFile + 1
    /\ UNCHANGED << keyFile, KEY, now, start, argvKeygen, pc, caller, reqtype,
                    wire, resp, reads, tsNow, result, excmsg, state, success,
                    presses, oklog, codec >>

\* the process ends and is started again
Restart ==
    /\ pc = "logging"
    /\ pc' = "boot"
    /\ UNCHANGED << keyFile, KEY, now, start, argvKeygen, caller, reqtype,
                    wire, resp, reads, tsNow, result, excmsg, state, success,
                    presses, oklog, codec, logFile >>

NextLog ==
    \/ TruncateLog
    \/ LogLine
    \/ Restart

SpecLog == InitLog /\ [][NextLog]_vars

\* ------------------------------------------------------------ properties
\* the running (or last) exchange is a key rotation
InKeygen == reqtype = "keygen"

\* the exchange has returned to its caller
Returned == pc \in {"done", "getch"}

\* every validation step of a key-rotation exchange passed: ack byte,
\* freshness at verification time, and a key read of the full length
KeygenValidated ==
    /\ InKeygen
    /\ Len(reads) = 3
    /\ reads[1] = <<85>>
    /\ tsNow - wire_decode_int(reads[2], TRUE) <= 10
    /\ Len(reads[3]) = 32

\* the key that was in the key store when the process started
LoadedKey == K0

\* C1: during and after a key-rotation exchange (outside the two-step file
\* write itself) the key store holds the key loaded at start or the 32-byte
\* key of a fully validated response; in particular a short key read leaves
\* the stored key unchanged.
C1_StoreChangesOnlyWhenValidated ==
    (InKeygen /\ pc \notin {"write_keyfile", "exit"}) =>
        \/ read_key_from_file = LoadedKey
        \/ (KeygenValidated /\ read_key_from_file = reads[3])

\* the ack read of a key-rotation exchange was not the ack sentinel
BadAck ==
    InKeygen /\ Len(reads) >= 1 /\ reads[1] # <<85>>

\* the ack was right and the timestamp read was older than MAX_AGE seconds
\* when it was verified
StaleTimestamp ==
    /\ InKeygen
    /\ Len(reads) >= 2
    /\ reads[1] = <<85>>
    /\ tsNow - wire_decode_int(reads[2], TRUE) > 10

\* C2: after a wrong ack, or a right ack with a timestamp more than MAX_AGE
\* seconds old, the exchange has failed, KEY_FILE still has its initial
\* content, and no read follows the failed check.
C2_RejectedKeygen ==
    /\ BadAck => /\ result = "EXIT_FAILURE"
                 /\ keyFile = b64e(LoadedKey)
                 /\ Len(reads) = 1
                 /\ excmsg = "client received bad response"
    /\ StaleTimestamp => /\ result = "EXIT_FAILURE"
                         /\ keyFile = b64e(LoadedKey)
                         /\ Len(reads) = 2
                         /\ excmsg = "client received stale response"

\* a complete timestamp exactly MAX_AGE + 1 seconds old was rejected
C2_Witness ==
    /\ StaleTimestamp
    /\ Len(reads[2]) = 8
    /\ tsNow - wire_decode_int(reads[2], TRUE) = 11
    /\ pc = "done"

\* C3: success is reported only when every validation step passed: the status
\* read was the byte 0xFF (open/close); ack, freshness and a full 32-byte key
\* read (keygen).
C3_SuccessOnlyWhenValidated ==
    (result = "EXIT_SUCCESS") =>
        \/ (reqtype \in {"open", "close"} /\ reads = << <<255>> >>)
        \/ KeygenValidated

C5_MacUsesStoredKey ==
    (pc \in {"recv_status", "recv_ack"}
       /\ read_key_from_file \in NewKeys \cup {LoadedKey}) =>
        /\ KEY = read_key_from_file
        /\ wire[1] = SubSeq(wire[1], 1, 9)
                     \o hmac_digest(read_key_from_file, SubSeq(wire[1], 1, 9))

\* C6: when the process is interrupted during or after a key-rotation
\* exchange whose key read (if any) was complete, the key store holds the
\* complete old key or the complete new key.
C6_InterruptLeavesCompleteKey ==
    (pc = "exit" /\ InKeygen /\ (Len(reads) = 3 => Len(reads[3]) = 32)) =>
        \/ read_key_from_file = LoadedKey
        \/ (Len(reads) = 3 /\ read_key_from_file = reads[3])

\* timestamps a controller near the client clock can send
TimestampsNear ==
    (start - 13)..(start + MaxTick + 5)
        \cup (start + 86400)..(start + MaxTick + 86400)

\* C7: a complete response timestamp t verified at client time tsNow is
\* rejected as stale exactly when tsNow - t > MAX_AGE (so age MAX_AGE passes
\* and age MAX_AGE + 1 fails).
C7_FreshnessBoundary ==
    (InKeygen /\ Len(reads) >= 2 /\ Len(reads[2]) = 8) =>
        /\ \E t \in TimestampsNear : reads[2] = wire_encode_int(t, 8, TRUE)
        /\ \A t \in TimestampsNear :
             reads[2] = wire_encode_int(t, 8, TRUE) =>
                (excmsg = "client received stale response" <=> tsNow - t > 10)

\* a timestamp exactly MAX_AGE seconds old, taken after the clock moved on
\* from the time of the request, was accepted
C7_Witness ==
    /\ InKeygen /\ Len(reads) >= 2 /\ Len(reads[2]) = 8
    /\ reads[2] = wire_encode_int(tsNow - 10, 8, TRUE)
    /\ tsNow > start
    /\ pc = "recv_key"

\* C8: an open/close exchange returns success exactly when its single read
\* returned the byte 0xFF; another byte or an empty read gives failure.
C8_StatusDecides ==
    (reqtype \in {"open", "close"} /\ pc = "done") =>
        (result = "EXIT_SUCCESS" <=> reads = << <<255>> >>)

\* a close request answered with an empty read has failed
C8_Witness ==
    reqtype = "close" /\ pc = "done" /\ reads = << <<>> >> /\ result = "EXIT_FAILURE"

\* C9: a call of ssl_request has written at most one message, and every
\* message written is 9 bytes followed by their MAC.
C9_OneAuthenticatedWrite ==
    /\ Len(wire) <= 1
    /\ \A i \in 1..Len(wire) :
         /\ Len(wire[i]) = 41
         /\ SubSeq(wire[i], 10, 41) = hmac_digest(KEY, SubSeq(wire[i], 1, 9))

\* a failed exchange after which exactly one message had been written
C9_Witness ==
    pc = "done" /\ result = "EXIT_FAILURE" /\ Len(wire) = 1

RECURSIVE ShiftRight8(_, _)
\* t shifted right by n bytes (arithmetic shift)
ShiftRight8(t, n) == IF n = 0 THEN t ELSE ShiftRight8(t \div 256, n - 1)

\* m is flag || 8-byte little-endian two's complement of t || MAC of those
\* 9 bytes under key
RequestLayout(m, flag, t, key) ==
    /\ Len(m) = 41
    /\ m[1] = flag
    /\ \A i \in 0..7 : m[2 + i] = ShiftRight8(t, i) % 256
    /\ SubSeq(m, 10, 41) = hmac_digest(key, SubSeq(m, 1, 9))

\* C10: the message make_request builds at client time now is
\* flag || timestamp || mac, 41 bytes, with flag 0xFF / 0x00 / 0xAA for
\* open / close / keygen.
C10_RequestLayout ==
    [][ (pc = "send" /\ pc' \in {"recv_status", "recv_ack"}) =>
          /\ Len(wire') = 1
          /\ RequestLayout(wire'[1],
                           CASE reqtype = "open" -> 255
                             [] reqtype = "close" -> 0
                             [] reqtype = "keygen" -> 170,
                           now, KEY) ]_vars

\* a keygen request built before the epoch (negative timestamp) is on the wire
C10_Witness ==
    pc = "recv_ack" /\ Len(wire) = 1 /\ wire[1][1] = 170 /\ wire[1][9] = 255

\* the request kind of the running (or last) call has no flag
UnknownKind == reqtype \notin {"none", "open", "close", "keygen"}

\* C11: a call with a kind other than open, close, keygen writes nothing,
\* reads nothing, leaves KEY_FILE as it is and returns EXIT_FAILURE.
C11_UnknownKindRejected ==
    /\ [](UnknownKind =>
            /\ wire = <<>>
            /\ reads = <<>>
            /\ result # "EXIT_SUCCESS"
            /\ (pc \in {"done", "boot"} => result = "EXIT_FAILURE"))
    /\ [][(UnknownKind /\ reqtype' = reqtype) => keyFile' = keyFile]_vars

\* a call with kind "toggle" has returned failure
C11_Witness ==
    reqtype = "toggle" /\ pc = "done" /\ result = "EXIT_FAILURE" /\ wire = <<>>

\* C12: a zero-length read that is decoded (status, ack, timestamp) ends the
\* exchange with a decoding failure: the exchange fails, and not with the
\* verdict of a sentinel or freshness comparison made on a decoded number.
C12_EmptyReadIsDecodingError ==
    \A k \in 1..Min(Len(reads), 2) :
        reads[k] = <<>> =>
            /\ result = "EXIT_FAILURE"
            /\ excmsg \notin {"client received bad response",
                              "client received stale response"}

\* v is representable in w bytes under signedness sgn
Representable(v, w, sgn) ==
    CASE w = 0 -> v = 0
      [] w = 1 -> IF sgn THEN -128 <= v /\ v <= 127 ELSE 0 <= v /\ v <= 255
      [] w = 2 -> IF sgn THEN -32768 <= v /\ v <= 32767
                         ELSE 0 <= v /\ v <= 65535
      [] w = 3 -> IF sgn THEN -8388608 <= v /\ v <= 8388607
                         ELSE 0 <= v /\ v <= 16777215
      [] w = 8 -> sgn \/ v >= 0

\* C13: encoding a representable value gives w bytes that decode back to the
\* value; encoding a value outside the range fails.
C13_CodecRoundTrip ==
    codec.applied =>
        IF Representable(codec.v, codec.w, codec.sgn)
        THEN /\ ~ codec.raised
             /\ Len(codec.bytes) = codec.w
             /\ codec.back = codec.v
        ELSE codec.raised

\* a negative value went through two signed bytes and came back
C13_Witness ==
    /\ codec.applied /\ codec.v = -129 /\ codec.w = 2 /\ codec.sgn
    /\ codec.bytes = <<127, 255>> /\ codec.back = -129

\* C20: truncate_log empties a log of more than MAX_LOG_ENTRIES (1024) lines
\* and leaves a log of at most that many lines unchanged.
C20_TruncateLogDumps ==
    [][ (pc = "boot" /\ pc' = "logging") =>
          IF logFile > 1024
          THEN logFile' < logFile /\ logFile' = 0
          ELSE logFile' = logFile ]_vars

\* positions inside ssl_request, before it returns
ExchangeSteps == {"connect", "send", "recv_status", "recv_ack", "recv_ts",
                  "recv_key", "open_keyfile", "write_keyfile"}

\* C14: a channel error (connect, write or a read raising) ends the call with
\* EXIT_FAILURE, returned to the caller, and the step that raises leaves
\* KEY_FILE as it is; after a failed key rotation KEY_FILE has its initial
\* content.
C14_ChannelErrorIsFailure ==
    /\ [](excmsg = "channel error" =>
            /\ result = "EXIT_FAILURE"
            /\ pc \in {"done", "getch", "exit"}
            /\ (InKeygen => keyFile = b64e(LoadedKey)))
    /\ [][(excmsg' = "channel error" /\ excmsg # "channel error") =>
            (keyFile' = keyFile /\ pc' = "done")]_vars

\* the read of the key raised after ack and timestamp had been accepted
C14_Witness ==
    /\ excmsg = "channel error" /\ InKeygen /\ Len(reads) = 2
    /\ pc = "done" /\ result = "EXIT_FAILURE"

\* C15: the keygen exchange is issued only by the startup code, at most once,
\* before any key press; the key file is written only inside it, and an
\* open or close request is built only after it has returned.
C15_KeygenOnlyAtStartup ==
    /\ []((InKeygen /\ pc \in ExchangeSteps) =>
            (caller = "startup" /\ presses = 0 /\ oklog = <<>>))
    /\ [](pc \in {"open_keyfile", "write_keyfile"} =>
            (InKeygen /\ Len(wire) = 1 /\ wire[1][1] = 170))
    /\ [][(pc # "connect" /\ pc' = "connect" /\ reqtype' = "keygen") =>
            pc = "boot"]_vars
    /\ [][pc' = "boot" => pc = "boot"]_vars
    /\ [][(reqtype \in {"open", "close"}) => (reqtype' # "keygen")]_vars

\* an open request is about to be built after a rotation that replaced the key
C15_Witness ==
    /\ pc = "send" /\ reqtype = "open" /\ argvKeygen
    /\ read_key_from_file \in NewKeys

\* C16: nothing is read before the request is written; the timestamp is read
\* only after a good ack, the key only after a fresh timestamp; a running
\* exchange has no result and a finished one exactly one; a call starts with
\* nothing written, read or raised.
C16_ExchangeOrder ==
    /\ reads # <<>> => Len(wire) = 1
    /\ Len(reads) <= 3
    /\ reqtype \in {"open", "close"} => Len(reads) <= 1
    /\ (InKeygen /\ Len(reads) >= 2) => reads[1] = <<85>>
    /\ (InKeygen /\ Len(reads) >= 3) =>
           tsNow - wire_decode_int(reads[2], TRUE) <= 10
    /\ pc \in {"open_keyfile", "write_keyfile"} => Len(reads) = 3
    /\ pc \in ExchangeSteps => result = "none"
    /\ pc = "done" => result \in {"EXIT_SUCCESS", "EXIT_FAILURE"}
    /\ pc = "connect" =>
           (wire = <<>> /\ reads = <<>> /\ resp = <<>> /\ excmsg = "" /\ tsNow = 0)

\* a third call starts from idle after two earlier exchanges
C16_Witness ==
    /\ pc = "connect" /\ presses = 2 /\ argvKeygen
    /\ wire = <<>> /\ reads = <<>> /\ result = "none"

C18_ToggleFollowsResult ==
    /\ []((caller = "main" /\ pc \in ExchangeSteps \cup {"done"}) =>
            reqtype = IF state = 0 THEN "open" ELSE "close")
    /\ [][(pc = "getch" /\ pc' # "getch" /\ pc' # "exit") =>
            (pc' = "connect" /\ presses' = presses + 1 /\ wire' = <<>>
             /\ state' = state)]_vars
    /\ [][(pc = "done" /\ pc' = "getch" /\ caller = "main") =>
            state' = IF result = "EXIT_SUCCESS" THEN 1 - state ELSE state]_vars

\* a failed close request has left the state Open
C18_Witness ==
    /\ state = 1 /\ reqtype = "close" /\ pc = "getch"
    /\ result = "EXIT_FAILURE" /\ presses = 2

\* C19: the requests main logged as successful alternate open, close, open,
\* ..., starting with open.
C19_SuccessesAlternate ==
    \A i \in 1..Len(oklog) :
        oklog[i] = IF i % 2 = 1 THEN "open" ELSE "close"

\* open and close succeeded with a failed request among the three key presses
C19_Witness ==
    oklog = <<"open", "close">> /\ presses = 3 /\ pc = "getch"

====
